---- MODULE Spec2Model ----
(***************************************************************************)
(* Execution tracer of the code visualizer.                                *)
(*                                                                         *)
(*   - the Python tracer (CodeTracer / trace_code, injected into Pyodide)  *)
(*     and the hook usePyodide.runCode that calls it and decodes its JSON; *)
(*   - the C engine hook useCpp.runCode, which single-steps the JSCPP      *)
(*     debugger;                                                           *)
(*   - the Python value serializer (serialize_value / capture_locals)      *)
(*     over a heap of objects.                                             *)
(*                                                                         *)
(* Spec         : one run request, routed to one of the two engines.       *)
(* SpecSer      : capture_locals applied to the locals of one frame.       *)
(* SpecCap      : capture_locals on values at and beyond the caps.         *)
(* SpecCVars    : the variable capture of one step of the C engine.        *)
(* SpecLife     : initialize / reinitialize of the Pyodide backend and a   *)
(*                run requested at any moment of it.                       *)
(* SpecApp      : App's result and timeline cursor.                        *)
(* SpecTimeline : the timeline store.                                      *)
(*                                                                         *)
(* Abstractions.  The traced Python program is any well-nested stream of   *)
(* sys.settrace events (call / line / return / exception, in user code or  *)
(* in library code).  Frames of Spec do not carry the line number and the  *)
(* captured variables of the Python tracer: neither is read back by the    *)
(* recorder; capture_locals is modelled in full by SpecSer, and in Spec    *)
(* only by whether it raises.  The step ceilings (1000 in both engines)    *)
(* are scaled down.                                                        *)
(***************************************************************************)
EXTENDS Integers, Sequences, FiniteSets, TLC

VARIABLES
    language,       \* engine the run request was routed to: "none", "python", "c"
    phase,          \* "idle" (no request yet), "exec" (engine running), "done"
    source,         \* the source text of the request, by class: "none", "valid", "invalid", "breaksCall"
    pyodideRef,     \* usePyodide: pyodideRef.current holds an instance
    step_count,     \* CodeTracer.step_count
    call_depth,     \* CodeTracer.call_depth
    frames,         \* CodeTracer.frames
    traceSet,       \* sys.settrace: the tracer's trace function is installed
    pyStack,        \* the traced program's stack of code blocks, by file name
    pyExc,          \* exception in flight: "none", "raised" (in the top frame), "arrived" (left the frame below)
    pyExcType,      \* its class: "Exception" (a subclass of Exception) or "SystemExit"
    pyEvents,       \* events the running program has produced in user code so far
    pyRaised,       \* an exception has been raised in the running program
    traceOut,       \* what trace_code gave back to runPython
    result,         \* the TraceResult runCode resolved to (read when phase = "done")
    pyFrames,       \* usePyodide: frames state
    stepCount,      \* useCpp.runCode: stepCount
    capturedFrames, \* useCpp.runCode: capturedFrames
    output,         \* useCpp.runCode: output, by content: "" / "ws" (white space only) / "text"
    lastLine,       \* useCpp.runCode: lastLine
    nextCalls,      \* calls of debuggerInstance.next() made by this run
    cppIsLoading,   \* useCpp: isLoading state
    cppError,       \* useCpp: error state
    cppFrames,      \* useCpp: frames state
    f_locals,       \* SpecSer: the locals of the frame being captured (name -> address)
    heap,           \* the objects, by address (id)
    captured,       \* SpecSer: what capture_locals returned
    serDone,        \* SpecSer: capture_locals has been called
    allVars,        \* SpecCVars: what debuggerInstance.variable() gave (name -> JS value)
    cppVariables,   \* SpecCVars: the `variables` map the loop body built
    cppVarsDone,    \* SpecCVars: the loop body has built it
    initializingRef,\* usePyodide: initializingRef.current
    pyIsLoading,    \* usePyodide: isLoading state
    pyIsReady,      \* usePyodide: isReady state
    pyError,        \* usePyodide: error state
    initInFlight,   \* calls of initialize() that are waiting for the load to settle
    initCalls,      \* calls of initialize() / reinitialize() made so far
    seenIsReady,    \* the isReady that the rendered useCodeRunner.runCode closes over
    appLanguage,    \* App: language state
    appResult,      \* App: result state (null, or a TraceResult by its number of frames)
    currentStep,    \* App: currentStep state
    runPending,     \* App: handleRunCode is waiting for runCode
    tlFrames,       \* TimelineStore: frames, by their number
    tlCurrentStep,  \* TimelineStore: currentStep
    tlLastOp,       \* TimelineStore: the operation called last, with its argument
    tlIsPlaying,    \* TimelineStore: isPlaying
    cursorBeforeRun \* App: currentStep at the moment the result on display arrived

pyVars  == <<step_count, call_depth, frames, traceSet, pyStack, pyExc, pyExcType,
             pyEvents, pyRaised, traceOut, pyFrames>>
cppVars == <<stepCount, capturedFrames, output, lastLine, nextCalls, cppIsLoading,
             cppError, cppFrames>>
serVars == <<f_locals, heap, captured, serDone>>
runVars == <<language, phase, source, pyodideRef, result>>
cserVars == <<allVars, cppVariables, cppVarsDone>>
lifeVars == <<initializingRef, pyIsLoading, pyIsReady, pyError, initInFlight, initCalls,
              seenIsReady>>
tlVars == <<tlFrames, tlCurrentStep, tlLastOp, tlIsPlaying>>
appVars == <<appLanguage, appResult, currentStep, runPending, cursorBeforeRun, tlVars>>
vars    == <<runVars, pyVars, cppVars, serVars, cserVars, lifeVars, appVars>>

(***************************************************************************)
(* Bounds                                                                  *)
(***************************************************************************)
\* CodeTracer.MAX_STEPS is 1000; scaled down.
MAX_STEPS == 5
\* MAX_STEPS of useCpp.runCode is 1000; scaled down.
CPP_MAX_STEPS == 4
\* events a program may produce in user code beyond the Python ceiling
MaxExtra == 2
\* nesting of code blocks of the traced Python program
MaxStack == 2
\* line numbers JSCPP reports are 1..MaxLine
MaxLine == 1
\* elements of a container of SpecSer
MaxItems == 1

NULL == "<null>"

Max(a, b) == IF a >= b THEN a ELSE b

Last(s) == s[Len(s)]

TraceResult(success, error, frs) ==
    [success |-> success, error |-> error, frames |-> frs]

NoOut == [kind |-> "none"]

\* a frames state of a hook: null, or a frame list
FramesNull == [set |-> FALSE, frames |-> <<>>]

FramesOf(frs) == [set |-> TRUE, frames |-> frs]

\* a key that is present and holds null (Python None dumped by json.dumps)
JsonNull == [json |-> "null"]

(***************************************************************************)
(* Python objects.  A value is the address of an object of the heap, and   *)
(* id(value) is that address.  Text is a sequence of characters.           *)
(*   [type |-> "NoneType"]                                                 *)
(*   [type |-> "bool" | "int" | "float", v |-> ...]                        *)
(*   [type |-> "str", text |-> <<...>>]                                    *)
(*   [type |-> "list" | "tuple" | "set", items |-> <<address, ...>>]       *)
(*   [type |-> "dict", items |-> <<[key |-> k, val |-> address], ...>>]    *)
(*       k = [isStr |-> .., text |-> .., strRaises |-> ..]                 *)
(*   [type |-> "object", cls |-> .., callable |-> .., strRaises |-> ..,    *)
(*    repr |-> <<...>>]                                                    *)
(***************************************************************************)
NoneId == 0

\* CodeTracer.MAX_STRING_LENGTH is 100, MAX_LIST_LENGTH is 50 and the limit
\* of dict entries is 20; scaled down.
MAX_STRING_LENGTH == 3
MAX_LIST_LENGTH == 2
DICT_LIMIT == 2

\* if depth > 3
MAX_DEPTH == 3

Min(a, b) == IF a <= b THEN a ELSE b

\* s[:n]
Take(s, n) == SubSeq(s, 1, Min(Len(s), n))

Ellipsis == <<".", ".", ".">>

\* what an exception leaving a function is modelled by
Raised == [raised |-> TRUE]

IsRaised(x) == "raised" \in DOMAIN x

\* isinstance(value, t): bool is a subclass of int
IsInstance(o, t) == o.type = t \/ (o.type = "bool" /\ t = "int")

\* mutant: the identity is derived from the contents, not from the object
ObjectId_ByContents(value, o) == IF "items" \in DOMAIN o THEN Len(o.items) ELSE value

\* id(value)
ObjectId(value, o) == value

\* key_str = str(k) if not isinstance(k, str) else k
KeyRaises(k) == ~k.isStr /\ k.strRaises

\* mutant: the guard lets one more level through
DepthExceeded_OneLate(depth) == depth > MAX_DEPTH + 1

\* if depth > 3
DepthExceeded(depth) == depth > MAX_DEPTH

RECURSIVE serialize_value(_, _, _)
serialize_value(h, value, depth) ==
    LET o == h[value]
        obj_id == ObjectId(value, o)
        Items(seq) == [i \in 1..Len(seq) |-> serialize_value(h, seq[i], depth + 1)]
        AnyRaised(ss) == \E i \in 1..Len(ss) : IsRaised(ss[i])
    IN
    IF DepthExceeded(depth)
    THEN [value |-> Ellipsis, type |-> "truncated", id |-> ObjectId(value, o)]
    ELSE IF o.type = "NoneType"
    THEN [value |-> JsonNull, type |-> "NoneType", id |-> obj_id]
    ELSE IF IsInstance(o, "bool")
    THEN [value |-> o.v, type |-> "bool", id |-> obj_id]
    ELSE IF IsInstance(o, "int")
    THEN [value |-> o.v, type |-> "int", id |-> obj_id]
    ELSE IF IsInstance(o, "float")
    THEN [value |-> o.v, type |-> "float", id |-> obj_id]
    ELSE IF IsInstance(o, "str")
    THEN [value |-> IF Len(o.text) > MAX_STRING_LENGTH
                    THEN Take(o.text, MAX_STRING_LENGTH) \o Ellipsis
                    ELSE Take(o.text, MAX_STRING_LENGTH),
          type |-> "str", id |-> obj_id]
    ELSE IF IsInstance(o, "list")
    THEN LET serialized_items == Items(Take(o.items, MAX_LIST_LENGTH))
             res == [value |-> serialized_items, type |-> "list", id |-> obj_id,
                     length |-> Len(o.items)]
         IN  IF AnyRaised(serialized_items) THEN Raised
             ELSE IF Len(o.items) > MAX_LIST_LENGTH
             THEN res @@ [truncated |-> TRUE]
             ELSE res
    ELSE IF IsInstance(o, "tuple")
    THEN LET serialized_items == Items(Take(o.items, MAX_LIST_LENGTH))
         IN  IF AnyRaised(serialized_items) THEN Raised
             ELSE [value |-> serialized_items, type |-> "tuple", id |-> obj_id,
                   length |-> Len(o.items)]
    ELSE IF IsInstance(o, "dict")
    THEN LET shown == Take(o.items, DICT_LIMIT)
             keys == {shown[i].key.text : i \in 1..Len(shown)}
             \* a later entry with the same key_str overwrites an earlier one
             LastOf(ks) == CHOOSE i \in 1..Len(shown) :
                              /\ shown[i].key.text = ks
                              /\ \A j \in (i + 1)..Len(shown) : shown[j].key.text # ks
             serialized_dict == [ks \in keys |->
                                   serialize_value(h, shown[LastOf(ks)].val, depth + 1)]
         IN  IF \/ \E i \in 1..Len(shown) : KeyRaises(shown[i].key)
                \/ \E i \in 1..Len(shown) :
                      IsRaised(serialize_value(h, shown[i].val, depth + 1))
             THEN Raised
             ELSE [value |-> serialized_dict, type |-> "dict", id |-> obj_id,
                   length |-> Len(o.items)]
    ELSE IF IsInstance(o, "set")
    THEN LET serialized_items == Items(Take(o.items, MAX_LIST_LENGTH))
         IN  IF AnyRaised(serialized_items) THEN Raised
             ELSE [value |-> serialized_items, type |-> "set", id |-> obj_id,
                   length |-> Len(o.items)]
    ELSE IF o.strRaises
    THEN [value |-> "<unserializable>", type |-> o.cls, id |-> obj_id]
    ELSE [value |-> Take(o.repr, MAX_STRING_LENGTH), type |-> o.cls, id |-> obj_id]

IGNORED_VARS ==
    {"__builtins__", "__name__", "__doc__", "__package__", "__loader__", "__spec__",
     "__annotations__", "__cached__", "__file__", "__tracer__", "CodeTracer", "tracer",
     "trace_code"}

\* callable(value)
Callable(o) == o.type = "object" /\ o.callable

\* number of underscores a name of the model starts with (2: two or more)
LeadingUnderscores(name) ==
    CASE name \in {"__a", "__builtins__", "__name__", "__doc__", "__package__",
                   "__loader__", "__spec__", "__annotations__", "__cached__",
                   "__file__", "__tracer__", "__x"} -> 2
      [] name \in {"_a", "_x", "_"} -> 1
      [] OTHER -> 0

\* name.startswith(prefix), for the prefixes "_" and "__"
StartsWith(name, prefix) ==
    IF prefix = "__" THEN LeadingUnderscores(name) >= 2 ELSE LeadingUnderscores(name) >= 1

\* the bindings capture_locals skips.  (Its test of the leading underscores
\* skips nothing: the inner condition contradicts the outer one.)
Skipped(h, name, value) ==
    \/ /\ StartsWith(name, "_") /\ ~StartsWith(name, "__")
       /\ StartsWith(name, "__")
    \/ name \in IGNORED_VARS
    \/ Callable(h[value]) /\ ~(h[value].type \in {"list", "dict", "set"})

\* capture_locals(local_vars); an exception of serialize_value leaves it
capture_locals(h, local_vars) ==
    LET kept == {name \in DOMAIN local_vars : ~Skipped(h, name, local_vars[name])}
        snaps == [name \in kept |-> serialize_value(h, local_vars[name], 0)]
    IN  IF \E name \in kept : IsRaised(snaps[name]) THEN Raised ELSE snaps

(***************************************************************************)
(* The values of a run of Spec: None, and an int as a return value.        *)
(***************************************************************************)
RunHeap == (NoneId :> [type |-> "NoneType"]) @@ (1 :> [type |-> "int", v |-> 1])

RunArgs == DOMAIN RunHeap

SerializeArg(arg) == serialize_value(heap, arg, 0)

(***************************************************************************)
(* CodeTracer.trace_function                                               *)
(***************************************************************************)
TARGET == "<user_code>"
LIB    == "<lib>"

FuncName == IF Len(pyStack) <= 1 THEN "<module>" ELSE "f"

\* mutant: the ceiling is tested with > (one frame too many)
StepLimitReached_OffByOne(sc) == sc > MAX_STEPS

StepLimitReached(sc) == sc >= MAX_STEPS

\* mutant: the call branch leaves the depth counter alone
CallDepthAfterCall_NoIncrement(d) == d

\* self.call_depth += 1
CallDepthAfterCall(d) == d + 1

\* mutant: the return branch leaves the depth counter alone
CallDepthAfterReturn_NoDecrement(d) == d

CallDepthAfterReturn(d) == Max(0, d - 1)

CallFrame(sc, fn, d) ==
    [step |-> sc, event |-> "call", function |-> fn, depth |-> d]

\* mutant: the frame is numbered before the counter is incremented
LineFrame_StepBeforeIncrement(sc, fn, d) ==
    [step |-> sc - 1, event |-> "line", function |-> fn, depth |-> d]

LineFrame(sc, fn, d) ==
    [step |-> sc, event |-> "line", function |-> fn, depth |-> d]

\* mutant: the key is written only when there is a value to serialize
ReturnFrame_OmitNone(sc, fn, d, arg) ==
    IF arg # NoneId
    THEN [step |-> sc, event |-> "return", function |-> fn, depth |-> d,
          return_value |-> SerializeArg(arg)]
    ELSE [step |-> sc, event |-> "return", function |-> fn, depth |-> d]

\* return_value = self.serialize_value(arg) if arg is not None else None
ReturnFrame(sc, fn, d, arg) ==
    [step |-> sc, event |-> "return", function |-> fn, depth |-> d,
     return_value |-> IF arg # NoneId THEN SerializeArg(arg) ELSE JsonNull]

ExceptionFrame(sc, fn, d, excType) ==
    [step |-> sc, event |-> "exception", function |-> fn, depth |-> d,
     exception |-> [type |-> excType, message |-> "msg"]]

\* The trace function is called (installed, and CPython dispatches the event).
\* `fails`: capture_locals / serialize_value raises inside the trace function.
Recording(filename) ==
    traceSet /\ ~StepLimitReached(step_count) /\ filename = TARGET

TraceRaises(filename, fails) == Recording(filename) /\ fails

\* The effect of one dispatched event on the tracer.  An exception leaving the
\* trace function makes CPython unset the trace function (as settrace(None)).
trace_function(filename, event, arg, fails) ==
    IF ~Recording(filename)
    THEN UNCHANGED <<step_count, call_depth, frames, traceSet>>
    ELSE /\ step_count' = step_count + 1
         /\ traceSet' = ~fails
         /\ call_depth' = CASE event = "call" -> CallDepthAfterCall(call_depth)
                            [] event = "return" /\ ~fails -> CallDepthAfterReturn(call_depth)
                            [] OTHER -> call_depth
         /\ frames' =
              IF fails THEN frames
              ELSE Append(frames,
                     CASE event = "call" -> CallFrame(step_count', FuncName', call_depth')
                       [] event = "line" -> LineFrame(step_count', FuncName, call_depth)
                       [] event = "return" -> ReturnFrame(step_count', FuncName, call_depth, arg)
                       [] OTHER -> ExceptionFrame(step_count', FuncName, call_depth, pyExcType'))

(***************************************************************************)
(* The traced program: the events CPython dispatches while exec() runs it. *)
(* The first event is the call of <module>; a code block that an exception *)
(* leaves gets an exception event and then a return event with arg None,   *)
(* and the exception event is repeated in the block below.                 *)
(***************************************************************************)
Executing == phase = "exec" /\ language = "python"

TopFile == Last(pyStack)

MayGrow == pyEvents < MAX_STEPS + MaxExtra

\* The locals of <module> are empty until its first line has run, and a
\* module returns None: nothing can fail to serialize before a line has run.
MayFail(fails) == fails => \E k \in 1..Len(frames) : frames[k].event = "line"

\* exception state of the program after an event, `normal` being what the
\* program itself does: an exception raised by the trace function is raised
\* into the traced code.
ExcAfter(filename, fails, normal, normalType) ==
    /\ pyExc' = IF TraceRaises(filename, fails) THEN "raised" ELSE normal
    /\ pyExcType' = IF TraceRaises(filename, fails) THEN "Exception" ELSE normalType
    /\ pyRaised' = (pyRaised \/ pyExc' # "none")

Counted(filename) == IF filename = TARGET THEN pyEvents + 1 ELSE pyEvents

PyCall(file, fails) ==
    /\ Executing /\ pyExc = "none" /\ MayGrow /\ MayFail(fails)
    /\ Len(pyStack) < MaxStack
    /\ pyStack = <<>> => (pyEvents = 0 /\ file = TARGET)
    /\ pyStack' = Append(pyStack, file)
    /\ pyEvents' = Counted(file)
    /\ ExcAfter(file, fails, "none", pyExcType)
    /\ trace_function(file, "call", NoneId, fails)
    /\ UNCHANGED <<runVars, traceOut, pyFrames, cppVars, serVars, cserVars, lifeVars, appVars>>

PyLine(fails) ==
    /\ Executing /\ pyExc = "none" /\ MayGrow /\ MayFail(fails)
    /\ pyStack # <<>>
    /\ pyEvents' = Counted(TopFile)
    /\ ExcAfter(TopFile, fails, "none", pyExcType)
    /\ trace_function(TopFile, "line", NoneId, fails)
    /\ UNCHANGED <<runVars, pyStack, traceOut, pyFrames, cppVars, serVars, cserVars, lifeVars, appVars>>

\* A return: the block is popped; if the trace function raises, the block is
\* left by that exception instead.
PyReturn(arg, fails) ==
    /\ Executing /\ pyExc = "none" /\ MayFail(fails)
    /\ pyStack # <<>>
    /\ Len(pyStack) = 1 => arg = NoneId
    /\ pyEvents' = Counted(TopFile)
    /\ pyExc' = IF TraceRaises(TopFile, fails) THEN "arrived" ELSE "none"
    /\ pyExcType' = IF TraceRaises(TopFile, fails) THEN "Exception" ELSE pyExcType
    /\ pyRaised' = (pyRaised \/ pyExc' # "none")
    /\ trace_function(TopFile, "return", arg, fails)
    /\ pyStack' = SubSeq(pyStack, 1, Len(pyStack) - 1)
    /\ UNCHANGED <<runVars, traceOut, pyFrames, cppVars, serVars, cserVars, lifeVars, appVars>>

\* The program raises: an exception event in the raising block.
PyRaise(excType, fails) ==
    /\ Executing /\ pyExc = "none" /\ MayGrow /\ MayFail(fails)
    /\ pyStack # <<>>
    /\ pyEvents' = Counted(TopFile)
    /\ ExcAfter(TopFile, fails, "raised", excType)
    /\ trace_function(TopFile, "exception", NoneId, fails)
    /\ UNCHANGED <<runVars, pyStack, traceOut, pyFrames, cppVars, serVars, cserVars, lifeVars, appVars>>

\* An except clause of the top block handles the exception: no event.
PyCatch ==
    /\ Executing /\ pyExc = "raised"
    /\ pyExc' = "none"
    /\ UNCHANGED <<runVars, step_count, call_depth, frames, traceSet, pyStack,
                   pyExcType, pyEvents, pyRaised, traceOut, pyFrames, cppVars, serVars, cserVars, lifeVars, appVars>>

\* The exception leaves the top block: a return event with arg None.
PyUnwind(fails) ==
    /\ Executing /\ pyExc = "raised" /\ MayFail(fails)
    /\ pyEvents' = Counted(TopFile)
    /\ pyExc' = "arrived"
    /\ pyExcType' = IF TraceRaises(TopFile, fails) THEN "Exception" ELSE pyExcType
    /\ UNCHANGED pyRaised
    /\ trace_function(TopFile, "return", NoneId, fails)
    /\ pyStack' = SubSeq(pyStack, 1, Len(pyStack) - 1)
    /\ UNCHANGED <<runVars, traceOut, pyFrames, cppVars, serVars, cserVars, lifeVars, appVars>>

\* The exception reaches the block below: an exception event there.
PyPropagate(fails) ==
    /\ Executing /\ pyExc = "arrived" /\ MayFail(fails)
    /\ pyStack # <<>>
    /\ pyEvents' = Counted(TopFile)
    /\ ExcAfter(TopFile, fails, "raised", pyExcType)
    /\ trace_function(TopFile, "exception", NoneId, fails)
    /\ UNCHANGED <<runVars, pyStack, traceOut, pyFrames, cppVars, serVars, cserVars, lifeVars, appVars>>

(***************************************************************************)
(* usePyodide.runCode and trace_code                                       *)
(***************************************************************************)
\* JSON.parse rejects the NaN / Infinity that json.dumps writes for a float
\* that is not finite.  A frame can hold such a float once a line has run.
MayNotDecode(frs, decodes) ==
    ~decodes => \E k \in 1..(Len(frs) - 1) : frs[k].event = "line"

\* mutant: the catch passes the fault on to the caller
RunCodeCatch_Rethrows(errorMessage) == [thrown |-> errorMessage]

\* the catch of runCode: every fault becomes a failed TraceResult
RunCodeCatch(errorMessage) == TraceResult(FALSE, errorMessage, <<>>)

\* JSON.parse(resultJson); setFrames(result.frames); return result -- or the
\* catch of runCode when JSON.parse throws.
Decoded(out, decodes) ==
    IF decodes
    THEN TraceResult(out.success, out.error, out.frames)
    ELSE RunCodeCatch("Unexpected token N in JSON")

\* mutant: the trace function is removed on the paths that return, not in a
\* finally
TraceAfterExit_NoFinally(installed, escapes) == installed /\ escapes

\* finally: sys.settrace(None), whether trace_code returns or the exception
\* escapes it
TraceAfterExit(installed, escapes) == FALSE

TraceCodeJson(success, error, frs) ==
    [kind |-> "json", success |-> success, error |-> error, frames |-> frs]

\* mutant: the SyntaxError is reported as a successful, empty trace
CompileError_AsSuccess == TraceCodeJson(TRUE, NULL, <<>>)

\* the return of trace_code when compile() raises SyntaxError
CompileError ==
    TraceCodeJson(FALSE, "SyntaxError: invalid syntax at line 1", <<>>)

\* mutant: the trace recorded so far is returned as a success
ExceptReturn_KeepsSuccess(frs) == TraceCodeJson(TRUE, "Exception: msg", frs)

\* the return of trace_code in `except Exception`
ExceptReturn(frs) == TraceCodeJson(FALSE, "Exception: msg", frs)

\* runCode(code) up to the point where exec() starts the program.
\*   code = "breaksCall": source text whose escaped form ends the triple-quoted
\*   literal of the call early (it ends in a double quote): runPython throws
\*   before trace_code is entered.
PyRunCode(code) ==
    /\ phase = "idle"
    /\ language' = "python"
    /\ source' = code
    /\ UNCHANGED <<pyodideRef, pyStack, pyExc, pyExcType, pyEvents, pyRaised, cppVars, serVars, cserVars, lifeVars, appVars>>
    /\ IF ~pyodideRef
       THEN /\ result' = TraceResult(FALSE, "Pyodide is not initialized", <<>>)
            /\ phase' = "done"
            /\ UNCHANGED <<step_count, call_depth, frames, traceSet, traceOut, pyFrames>>
       ELSE IF code = "breaksCall"
       THEN /\ result' = RunCodeCatch("PythonError: SyntaxError")
            /\ phase' = "done"
            /\ UNCHANGED <<step_count, call_depth, frames, traceSet, traceOut, pyFrames>>
       ELSE /\ step_count' = 0 /\ call_depth' = 0 /\ frames' = <<>>
            /\ IF code = "invalid"
               THEN /\ traceOut' = CompileError
                    /\ result' = Decoded(traceOut', TRUE)
                    /\ pyFrames' = FramesOf(result'.frames)
                    /\ phase' = "done"
                    /\ UNCHANGED traceSet
               ELSE /\ traceSet' = TRUE
                    /\ phase' = "exec"
                    /\ UNCHANGED <<traceOut, result, pyFrames>>

\* exec() returned: the success return of trace_code, its finally, and the
\* rest of runCode.
ExecReturns(decodes) ==
    /\ Executing /\ pyStack = <<>> /\ pyEvents > 0 /\ pyExc = "none"
    /\ MayNotDecode(frames, decodes)
    /\ traceOut' = TraceCodeJson(TRUE, NULL, frames)
    /\ traceSet' = TraceAfterExit(traceSet, FALSE)
    /\ result' = Decoded(traceOut', decodes)
    /\ pyFrames' = IF decodes THEN FramesOf(result'.frames) ELSE pyFrames
    /\ phase' = "done"
    /\ UNCHANGED <<language, source, pyodideRef, step_count, call_depth, frames, pyStack,
                   pyExc, pyExcType, pyEvents, pyRaised, cppVars, serVars, cserVars, lifeVars, appVars>>

\* exec() raised: `except Exception` of trace_code, or, for an exception that
\* is no Exception (SystemExit), only its finally: the exception leaves
\* trace_code and runPython, and the catch of runCode answers.
ExecRaises(decodes) ==
    /\ Executing /\ pyStack = <<>> /\ pyExc = "arrived"
    /\ MayNotDecode(frames, decodes)
    /\ traceSet' = TraceAfterExit(traceSet, pyExcType # "Exception")
    /\ IF pyExcType = "Exception"
       THEN /\ traceOut' = ExceptReturn(frames)
            /\ result' = Decoded(traceOut', decodes)
            /\ pyFrames' = IF decodes THEN FramesOf(result'.frames) ELSE pyFrames
       ELSE /\ traceOut' = [kind |-> "raised"]
            /\ result' = RunCodeCatch("PythonError: SystemExit")
            /\ UNCHANGED pyFrames
    /\ phase' = "done"
    /\ UNCHANGED <<language, source, pyodideRef, step_count, call_depth, frames, pyStack,
                   pyExc, pyExcType, pyEvents, pyRaised, cppVars, serVars, cserVars, lifeVars, appVars>>

(***************************************************************************)
(* useCpp.runCode                                                          *)
(***************************************************************************)
\* output += s
Write(out, s) ==
    CASE s = "" -> out
      [] out = "text" \/ s = "text" -> "text"
      [] OTHER -> "ws"

\* output.trim()
Trim(out) == IF out = "text" THEN "text" ELSE ""

LoopFrame(sc, line, variables) ==
    [step |-> sc, line |-> line, event |-> "line", function |-> "main", depth |-> 1,
     variables |-> variables]

OutputFrame(sc, out) ==
    [step |-> sc + 1, line |-> 0, event |-> "return", function |-> "main", depth |-> 0,
     variables |-> {},
     return_value |-> [value |-> Trim(out), type |-> "stdout", id |-> 0]]

\* if (currentLine > 0 || Object.keys(variables).length > 0)
HasData(currentLine, variables) == currentLine > 0 \/ Cardinality(variables) > 0

\* if (output) capturedFrames.push(...)
WithOutputFrame(frs, sc, out) ==
    IF out # "" THEN Append(frs, OutputFrame(sc, out)) ELSE frs

\* the catch and the finally of runCode
CppCatch(frs) ==
    /\ cppError' = "Error: msg"
    /\ cppFrames' = FramesOf(frs)
    /\ result' = TraceResult(FALSE, "Error: msg", frs)
    /\ cppIsLoading' = FALSE
    /\ phase' = "done"

\* the code after the stepping loop: the output frame, setFrames, the
\* success return, the finally
CppFinish(frs, sc, out) ==
    /\ capturedFrames' = WithOutputFrame(frs, sc, out)
    /\ cppFrames' = FramesOf(capturedFrames')
    /\ result' = TraceResult(TRUE, NULL, capturedFrames')
    /\ cppIsLoading' = FALSE
    /\ phase' = "done"
    /\ UNCHANGED cppError

\* runCode(code) up to the stepping loop: loadJSCPP and jscpp.run.
\*   loads: the dynamic import of JSCPP succeeds; code = "invalid": run()
\*   throws on the source; debug: run() gives a debugger.
CppRunCode(code, loads, debug) ==
    /\ phase = "idle"
    /\ language' = "c"
    /\ source' = code
    /\ stepCount' = 0 /\ lastLine' = 0 /\ output' = "" /\ nextCalls' = 0
    /\ UNCHANGED <<pyodideRef, pyVars, serVars, cserVars, lifeVars, appVars>>
    /\ CASE ~loads \/ code = "invalid" ->
              /\ capturedFrames' = <<>>
              /\ CppCatch(capturedFrames')
         [] ~debug ->
              /\ capturedFrames' = <<>>
              /\ result' = TraceResult(FALSE, "Debug mode is not available. Check JSCPP configuration.", <<>>)
              /\ cppIsLoading' = FALSE
              /\ cppError' = NULL
              /\ phase' = "done"
              /\ UNCHANGED cppFrames
         [] OTHER ->
              /\ capturedFrames' = <<>>
              /\ cppIsLoading' = TRUE
              /\ cppError' = NULL
              /\ phase' = "exec"
              /\ UNCHANGED <<result, cppFrames>>

\* mutant: the loop is left one step later
CeilingPassed_OneLate(sc) == sc > CPP_MAX_STEPS + 1

\* if (stepCount > MAX_STEPS) break
CeilingPassed(sc) == sc > CPP_MAX_STEPS

\* One iteration of the do-while loop, with what follows it when it is the
\* last one.
\*   nxt: debuggerInstance.next() "throws", returns false ("more") or returns
\*   the exit code ("exit", and done is set); wrote: what the step wrote to
\*   stdio; node: nextNode().sLine, 0 for a null node; variables: the bindings
\*   left by the filter.
CppStep(nxt, wrote, node, variables) ==
    /\ phase = "exec" /\ language = "c"
    /\ nextCalls' = nextCalls + 1
    /\ output' = Write(output, wrote)
    /\ UNCHANGED <<language, source, pyodideRef, pyVars, serVars, cserVars, lifeVars, appVars>>
    /\ IF nxt = "throws"
       THEN /\ CppCatch(capturedFrames)
            /\ UNCHANGED <<stepCount, capturedFrames, lastLine>>
       ELSE /\ stepCount' = stepCount + 1
            /\ IF CeilingPassed(stepCount')
               THEN /\ CppFinish(capturedFrames, stepCount', output')
                    /\ UNCHANGED lastLine
               ELSE LET currentLine == IF node # 0 THEN node ELSE lastLine
                        pushed == IF HasData(currentLine, variables)
                                  THEN Append(capturedFrames,
                                              LoopFrame(stepCount', currentLine, variables))
                                  ELSE capturedFrames
                    IN  /\ lastLine' = IF node # 0 THEN node ELSE lastLine
                        /\ IF nxt = "more"
                           THEN /\ capturedFrames' = pushed
                                /\ UNCHANGED <<result, cppFrames, cppError, cppIsLoading, phase>>
                           ELSE CppFinish(pushed, stepCount', output')

(***************************************************************************)
(* One run request                                                         *)
(***************************************************************************)
SerIdle ==
    /\ f_locals = <<>> /\ heap = RunHeap /\ captured = <<>> /\ serDone = FALSE

CSerIdle ==
    /\ allVars = <<>> /\ cppVariables = <<>> /\ cppVarsDone = FALSE

\* usePyodide with no initialization in flight: an instance is held (ok), or
\* the initialization failed
LifeSettled(ok) ==
    /\ initializingRef = FALSE /\ pyIsLoading = FALSE /\ pyIsReady = ok
    /\ pyError = (IF ok THEN NULL ELSE "Failed to load Pyodide script")
    /\ initInFlight = 0 /\ initCalls = 0 /\ seenIsReady = ok

\* App and the timeline store as constructed
AppIdle ==
    /\ appLanguage = "python" /\ appResult = [set |-> FALSE, success |-> FALSE, n |-> 0]
    /\ currentStep = 0 /\ runPending = FALSE
    /\ cursorBeforeRun = 0
    /\ tlFrames = 0 /\ tlCurrentStep = 0 /\ tlLastOp = [op |-> "none", arg |-> 0]
    /\ tlIsPlaying = FALSE

Init ==
    /\ language = "none" /\ phase = "idle" /\ source = "none"
    /\ pyodideRef \in BOOLEAN
    /\ step_count = 0 /\ call_depth = 0 /\ frames = <<>> /\ traceSet = FALSE
    /\ pyStack = <<>> /\ pyExc = "none" /\ pyExcType = "Exception" /\ pyEvents = 0
    /\ pyRaised = FALSE
    /\ traceOut = NoOut
    /\ result = TraceResult(FALSE, NULL, <<>>)
    /\ pyFrames = FramesNull
    /\ stepCount = 0 /\ capturedFrames = <<>> /\ output = "" /\ lastLine = 0
    /\ nextCalls = 0
    /\ cppIsLoading = FALSE /\ cppError = NULL /\ cppFrames = FramesNull
    /\ SerIdle /\ CSerIdle /\ LifeSettled(pyodideRef) /\ AppIdle

Next ==
    \/ \E code \in {"valid", "invalid", "breaksCall"} : PyRunCode(code)
    \/ \E file \in {TARGET, LIB}, fails \in BOOLEAN : PyCall(file, fails)
    \/ \E fails \in BOOLEAN : PyLine(fails)
    \/ \E arg \in RunArgs, fails \in BOOLEAN : PyReturn(arg, fails)
    \/ \E excType \in {"Exception", "SystemExit"}, fails \in BOOLEAN : PyRaise(excType, fails)
    \/ PyCatch
    \/ \E fails \in BOOLEAN : PyUnwind(fails)
    \/ \E fails \in BOOLEAN : PyPropagate(fails)
    \/ \E decodes \in BOOLEAN : ExecReturns(decodes)
    \/ \E decodes \in BOOLEAN : ExecRaises(decodes)
    \/ \E code \in {"valid", "invalid"}, loads \in BOOLEAN, debug \in BOOLEAN :
          CppRunCode(code, loads, debug)
    \/ \E nxt \in {"throws", "more", "exit"}, wrote \in {"", "ws", "text"},
          node \in 0..MaxLine, variables \in SUBSET {"x"} :
            CppStep(nxt, wrote, node, variables)

Spec == Init /\ [][Next]_vars

(***************************************************************************)
(* A run request that follows earlier runs: the hooks keep their frames    *)
(* state from one runCode call to the next, so a request can find in each  *)
(* hook the frames the engine's last completed run stored there.           *)
(***************************************************************************)
\* a trace stored by an earlier Python run (`pass`)
EarlierPyFrames ==
    <<CallFrame(1, "<module>", 1), LineFrame(2, "<module>", 1),
      ReturnFrame(3, "<module>", 1, NoneId)>>

\* a trace stored by an earlier C run (one statement, no output)
EarlierCppFrames == <<LoopFrame(1, 1, {})>>

InitRuns ==
    /\ language = "none" /\ phase = "idle" /\ source = "none"
    /\ pyodideRef \in BOOLEAN
    /\ step_count = 0 /\ call_depth = 0 /\ frames = <<>> /\ traceSet = FALSE
    /\ pyStack = <<>> /\ pyExc = "none" /\ pyExcType = "Exception" /\ pyEvents = 0
    /\ pyRaised = FALSE
    /\ traceOut = NoOut
    /\ result = TraceResult(FALSE, NULL, <<>>)
    /\ pyFrames \in {FramesNull, FramesOf(EarlierPyFrames)}
    \* frames are stored by a run that had an instance, and reinitialize,
    \* which drops the instance, clears them
    /\ pyFrames.set => pyodideRef
    /\ stepCount = 0 /\ capturedFrames = <<>> /\ output = "" /\ lastLine = 0
    /\ nextCalls = 0
    /\ cppIsLoading = FALSE /\ cppError = NULL
    /\ cppFrames \in {FramesNull, FramesOf(EarlierCppFrames)}
    /\ SerIdle /\ CSerIdle /\ LifeSettled(pyodideRef) /\ AppIdle

\* const frames = pyodide.frames || cpp.frames
RunnerFrames == IF pyFrames.set THEN pyFrames ELSE cppFrames

\* Whether jscpp.run returns a debugger depends on the configuration alone
\* ({ debug: true }), which is the same for every run: the engine that stepped
\* an earlier program steps this one as well.
NextRuns ==
    \/ \E code \in {"valid", "invalid", "breaksCall"} : PyRunCode(code)
    \/ \E file \in {TARGET, LIB}, fails \in BOOLEAN : PyCall(file, fails)
    \/ \E fails \in BOOLEAN : PyLine(fails)
    \/ \E arg \in RunArgs, fails \in BOOLEAN : PyReturn(arg, fails)
    \/ \E excType \in {"Exception", "SystemExit"}, fails \in BOOLEAN : PyRaise(excType, fails)
    \/ PyCatch
    \/ \E fails \in BOOLEAN : PyUnwind(fails)
    \/ \E fails \in BOOLEAN : PyPropagate(fails)
    \/ \E decodes \in BOOLEAN : ExecReturns(decodes)
    \/ \E decodes \in BOOLEAN : ExecRaises(decodes)
    \/ \E code \in {"valid", "invalid"}, loads \in BOOLEAN : CppRunCode(code, loads, TRUE)
    \/ \E nxt \in {"throws", "more", "exit"}, wrote \in {"", "ws", "text"},
          node \in 0..MaxLine, variables \in SUBSET {"x"} :
            CppStep(nxt, wrote, node, variables)

SpecRuns == InitRuns /\ [][NextRuns]_vars

(***************************************************************************)
(* capture_locals on the locals of one frame (SpecSer).  The heap holds    *)
(* None, one object that is no container, and two containers whose         *)
(* elements are any objects of the heap, themselves included.  Name a is   *)
(* bound to the first container and name b to any object but None: to the  *)
(* same container, to the other one, or to the object that is none.        *)
(***************************************************************************)
Addr == {NoneId, 1, 2, 3}

Names == {"a", "b"}

Leafs ==
    { [type |-> "int", v |-> 1],
      [type |-> "bool", v |-> TRUE],
      [type |-> "str", text |-> <<"a", "b">>],
      [type |-> "object", cls |-> "function", callable |-> TRUE, strRaises |-> FALSE,
       repr |-> <<"<", "f", ">">>] }

SeqsUpTo(S, n) == UNION {[1..k -> S] : k \in 0..n}

KeyTexts == <<"k1", "k2", "k3", "k4">>

\* the i-th key of a dict whose keys are all of one kind: text, ints, or
\* objects whose __str__ raises
KeyOf(kind, i) ==
    CASE kind = "str" -> [isStr |-> TRUE, text |-> KeyTexts[i], strRaises |-> FALSE]
      [] kind = "int" -> [isStr |-> FALSE, text |-> ToString(i), strRaises |-> FALSE]
      [] OTHER -> [isStr |-> FALSE, text |-> "?", strRaises |-> TRUE]

Containers ==
    {[type |-> t, items |-> items] :
        t \in {"list", "tuple", "set"}, items \in SeqsUpTo(Addr, MaxItems)}
    \cup
    {[type |-> "dict",
      items |-> [i \in 1..Len(vals) |-> [key |-> KeyOf(kind, i), val |-> vals[i]]]] :
        kind \in {"str", "int", "bad"}, vals \in SeqsUpTo(Addr, MaxItems)}

InitSer ==
    /\ language = "none" /\ phase = "idle" /\ source = "none"
    /\ pyodideRef = TRUE
    /\ step_count = 0 /\ call_depth = 0 /\ frames = <<>> /\ traceSet = FALSE
    /\ pyStack = <<>> /\ pyExc = "none" /\ pyExcType = "Exception" /\ pyEvents = 0
    /\ pyRaised = FALSE
    /\ traceOut = NoOut
    /\ result = TraceResult(FALSE, NULL, <<>>)
    /\ pyFrames = FramesNull
    /\ stepCount = 0 /\ capturedFrames = <<>> /\ output = "" /\ lastLine = 0
    /\ nextCalls = 0
    /\ cppIsLoading = FALSE /\ cppError = NULL /\ cppFrames = FramesNull
    /\ \E leaf \in Leafs, c2 \in Containers, c3 \in Containers :
          heap = (NoneId :> [type |-> "NoneType"]) @@ (1 :> leaf) @@ (2 :> c2) @@ (3 :> c3)
    /\ \E b \in Addr \ {NoneId} : f_locals = ("a" :> 2) @@ ("b" :> b)
    /\ captured = <<>> /\ serDone = FALSE
    /\ CSerIdle /\ LifeSettled(TRUE) /\ AppIdle

\* the trace function captures the locals of the frame
CaptureLocals ==
    /\ ~serDone
    /\ captured' = capture_locals(heap, f_locals)
    /\ serDone' = TRUE
    /\ UNCHANGED <<runVars, pyVars, cppVars, f_locals, heap, cserVars, lifeVars, appVars>>

NextSer == CaptureLocals

SpecSer == InitSer /\ [][NextSer]_vars

(***************************************************************************)
(* capture_locals on values at and beyond the caps (SpecCap).  The heap     *)
(* holds None, one object that is no container (text of any length up to   *)
(* one more than the cap among them) and one container of up to CapLen     *)
(* elements, each None or that object.  The container is bound to a name   *)
(* with no, one or two leading underscores, the other object to b.         *)
(***************************************************************************)
\* one more than the larger of the two element caps
CapLen == Max(MAX_LIST_LENGTH, DICT_LIMIT) + 1

CapChars == <<"a", "b", "c", "d", "e", "f", "g", "h">>

CapLeafs ==
    {[type |-> "str", text |-> SubSeq(CapChars, 1, k)] : k \in 0..(MAX_STRING_LENGTH + 1)}
    \cup
    { [type |-> "int", v |-> 1],
      [type |-> "object", cls |-> "K", callable |-> FALSE, strRaises |-> TRUE,
       repr |-> <<>>] }

\* the i-th key of a dict; kind "mixed": the int 1, the text "1", the int 2,
\* the text "2", ...
CapKeyOf(kind, i) ==
    IF kind = "mixed"
    THEN [isStr |-> (i % 2 = 0), text |-> ToString((i + 1) \div 2), strRaises |-> FALSE]
    ELSE KeyOf(kind, i)

\* the elements of a set are distinct: None, the object at 1, and ints kept
\* at the addresses from 3 on
CapSetItems(k) == [i \in 1..k |-> IF i = 1 THEN NoneId ELSE IF i = 2 THEN 1 ELSE i]

CapInts == [i \in 3..CapLen |-> [type |-> "int", v |-> i]]

CapContainers ==
    {[type |-> t, items |-> items] :
        t \in {"list", "tuple"}, items \in SeqsUpTo({NoneId, 1}, CapLen)}
    \cup
    {[type |-> "set", items |-> CapSetItems(k)] : k \in 0..CapLen}
    \cup
    {[type |-> "dict",
      items |-> [i \in 1..Len(vals) |-> [key |-> CapKeyOf(kind, i), val |-> vals[i]]]] :
        kind \in {"str", "int", "bad", "mixed"}, vals \in SeqsUpTo({NoneId, 1}, CapLen)}

CapNames == {"a", "_a", "__a", "__name__"}

InitCap ==
    /\ language = "none" /\ phase = "idle" /\ source = "none"
    /\ pyodideRef = TRUE
    /\ step_count = 0 /\ call_depth = 0 /\ frames = <<>> /\ traceSet = FALSE
    /\ pyStack = <<>> /\ pyExc = "none" /\ pyExcType = "Exception" /\ pyEvents = 0
    /\ pyRaised = FALSE
    /\ traceOut = NoOut
    /\ result = TraceResult(FALSE, NULL, <<>>)
    /\ pyFrames = FramesNull
    /\ stepCount = 0 /\ capturedFrames = <<>> /\ output = "" /\ lastLine = 0
    /\ nextCalls = 0
    /\ cppIsLoading = FALSE /\ cppError = NULL /\ cppFrames = FramesNull
    /\ \E leaf \in CapLeafs, c \in CapContainers :
          heap = (NoneId :> [type |-> "NoneType"]) @@ (1 :> leaf) @@ (2 :> c) @@ CapInts
    /\ \E name \in CapNames : f_locals = (name :> 2) @@ ("b" :> 1)
    /\ captured = <<>> /\ serDone = FALSE
    /\ CSerIdle /\ LifeSettled(TRUE) /\ AppIdle

SpecCap == InitCap /\ [][NextSer]_vars

(***************************************************************************)
(* The variable capture of the loop body of useCpp.runCode (SpecCVars).    *)
(* JavaScript values, by what the code tests of them:                      *)
(*   [js |-> "null"]  (null or undefined)      [js |-> "function"]         *)
(*   [js |-> "number", int |-> ..]   [js |-> "string"]   [js |-> "boolean"]*)
(*   [js |-> "array", items |-> <<...>>]                                   *)
(*   [js |-> "object", has |-> {property names}, v |-> .., tname |-> ..,   *)
(*    target |-> .., json |-> ..]                                          *)
(*       v: the value of property v; tname: t.name; target: the value of   *)
(*       property target; json: what JSON.stringify gives, by class        *)
(***************************************************************************)
\* Math.random() * 1000000000, floored, is 0..999999999; scaled down to 0..MaxRandom
MaxRandom == 3
\* elements of a C array
MaxArray == 2

JsNull == [js |-> "null"]
JsFunction == [js |-> "function"]
JsNumber(isInt) == [js |-> "number", int |-> isInt]
JsArray(items) == [js |-> "array", items |-> items]
JsBoolean(b) == [js |-> "boolean", b |-> b]

\* value ? 1 : 0
BoolAsNumber(value) == [js |-> "number", int |-> TRUE, n |-> IF value.b THEN 1 ELSE 0]

\* a JSCPP runtime value {v: ..., t: {name: ...}}
JsRuntime(v, tname) ==
    [js |-> "object", has |-> {"v", "t"}, v |-> v, tname |-> tname,
     target |-> JsNull, json |-> "plain"]

\* an object with a string property name, such as {name: "printf"}
JsNamed ==
    [js |-> "object", has |-> {"name"}, v |-> JsNull, tname |-> "",
     target |-> JsNull, json |-> "hasName"]

\* an object with none of the properties the code looks for
JsStruct(json) ==
    [js |-> "object", has |-> {}, v |-> JsNull, tname |-> "",
     target |-> JsNull, json |-> json]

\* an object whose property target is an array
JsArrayLike(items) ==
    [js |-> "object", has |-> {"target"}, v |-> JsNull, tname |-> "",
     target |-> JsArray(items), json |-> "plain"]

\* typeof x
TypeOf(x) == x.js

\* id: id + idx + 1, idx counted from 0 (here from 1)
ElementId(id, idx) == id + (idx - 1) + 1

\* value.map((item, idx) => ...) of the array branch
ArrayItems(items, id) ==
    [i \in 1..Len(items) |->
        LET item == items[i]
            itemValue == IF TypeOf(item) = "object" /\ "v" \in item.has THEN item.v ELSE item
        IN  [value |-> itemValue,
             type |-> IF TypeOf(itemValue) = "number"
                      THEN (IF itemValue.int THEN "int" ELSE "float")
                      ELSE TypeOf(itemValue),
             id |-> ElementId(id, i)]]

\* serializeValue(value, type); rnd: the values Math.random gives to this
\* call and to the calls it makes, in order
RECURSIVE serializeValue(_, _, _)
serializeValue(value, type, rnd) ==
    LET id == Head(rnd) IN
    IF TypeOf(value) = "null"
    THEN [value |-> JsNull, type |-> "null", id |-> id]
    ELSE IF TypeOf(value) = "function"
    THEN [value |-> "[function]", type |-> "function", id |-> id]
    ELSE IF TypeOf(value) = "object" /\ "v" \in value.has
    THEN IF TypeOf(value.v) = "function"
         THEN [value |-> "[function]", type |-> "function", id |-> id]
         ELSE serializeValue(value.v, IF value.tname # "" THEN value.tname ELSE type,
                             Tail(rnd))
    ELSE IF TypeOf(value) = "array"
    THEN [value |-> ArrayItems(value.items, id), type |-> "array", id |-> id,
          length |-> Len(value.items)]
    ELSE IF TypeOf(value) = "number"
    THEN [value |-> value, type |-> IF value.int THEN "int" ELSE "float", id |-> id]
    ELSE IF TypeOf(value) = "string"
    THEN [value |-> value, type |-> "char*", id |-> id]
    ELSE IF TypeOf(value) = "boolean"
    THEN [value |-> BoolAsNumber(value), type |-> "bool", id |-> id]
    ELSE IF TypeOf(value.target) = "array"
    THEN serializeValue(value.target, "array", Tail(rnd))
    ELSE [value |-> value.json, type |-> "struct", id |-> id]

STDLIB_FUNCTIONS ==
    {"printf", "sprintf", "fprintf", "snprintf", "scanf", "sscanf", "fscanf",
     "getchar", "putchar", "gets", "puts", "malloc", "calloc", "realloc", "free",
     "strlen", "strcpy", "strcat", "strcmp", "strncpy", "memset", "memcpy", "memmove",
     "abs", "sqrt", "pow", "floor", "ceil", "rand", "srand", "exit", "atoi", "atof",
     "cout", "cin", "endl", "cerr", "clog", "std", "using", "namespace"}

isFunction(varData) ==
    /\ TypeOf(varData) = "object"
    /\ \/ "v" \in varData.has /\ TypeOf(varData.v) = "function"
       \/ "name" \in varData.has
       \/ "t" \in varData.has /\ varData.tname = "function"

\* the bindings the loop over Object.entries(allVars) leaves out
CppSkipped(name, varData, serialized) ==
    \/ StartsWith(name, "_") \/ name = "this"
    \/ name \in STDLIB_FUNCTIONS
    \/ isFunction(varData)
    \/ serialized.type = "struct" /\ serialized.value \in {"hasFunction", "{}", "hasName"}
    \/ serialized.type = "null"

\* the variables map of one step; rnd[name]: the values of Math.random
\* during serializeValue(varData) of that name
CppVariables(av, rnd) ==
    LET ser(name) == serializeValue(av[name], "unknown", rnd[name])
        kept == {name \in DOMAIN av : ~CppSkipped(name, av[name], ser(name))}
    IN  [name \in kept |-> ser(name)]

CppCaptureVariables(rnd) ==
    /\ ~cppVarsDone
    /\ cppVariables' = CppVariables(allVars, rnd)
    /\ cppVarsDone' = TRUE
    /\ UNCHANGED <<runVars, pyVars, cppVars, serVars, allVars, lifeVars, appVars>>

\* values of C variables: an int, a double, an array of ints (its elements
\* runtime values or plain numbers), a pointer, a function of the library
\* and an empty object
JsVals ==
    { JsRuntime(JsNumber(TRUE), "int"), JsRuntime(JsNumber(FALSE), "double"),
      JsRuntime(JsFunction, "function"), JsRuntime(JsNull, "pointer"),
      JsNumber(TRUE), JsNamed, JsStruct("{}"), JsStruct("plain"),
      JsRuntime(JsBoolean(TRUE), "bool"), JsRuntime(JsBoolean(FALSE), "bool") }
    \cup
    { JsRuntime(JsArray([i \in 1..k |-> JsRuntime(JsNumber(TRUE), "int")]), "") : k \in 0..MaxArray }
    \cup
    { JsArrayLike([i \in 1..k |-> JsNumber(TRUE)]) : k \in 1..MaxArray }

CNames == {"x", "_x", "this", "printf"}

\* serializeValue is entered at most twice for a variable of JsVals
Draws == [1..2 -> 0..MaxRandom]

InitCVars ==
    /\ language = "none" /\ phase = "idle" /\ source = "none"
    /\ pyodideRef = TRUE
    /\ step_count = 0 /\ call_depth = 0 /\ frames = <<>> /\ traceSet = FALSE
    /\ pyStack = <<>> /\ pyExc = "none" /\ pyExcType = "Exception" /\ pyEvents = 0
    /\ pyRaised = FALSE
    /\ traceOut = NoOut
    /\ result = TraceResult(FALSE, NULL, <<>>)
    /\ pyFrames = FramesNull
    /\ stepCount = 0 /\ capturedFrames = <<>> /\ output = "" /\ lastLine = 0
    /\ nextCalls = 0
    /\ cppIsLoading = FALSE /\ cppError = NULL /\ cppFrames = FramesNull
    /\ SerIdle /\ LifeSettled(TRUE) /\ AppIdle
    /\ \E name \in CNames, v1 \in JsVals, v2 \in JsVals :
          allVars = (name :> v1) @@ ("y" :> v2)
    /\ cppVariables = <<>> /\ cppVarsDone = FALSE

NextCVars == \E rnd \in [DOMAIN allVars -> Draws] : CppCaptureVariables(rnd)

SpecCVars == InitCVars /\ [][NextCVars]_vars

(***************************************************************************)
(* The life cycle of the Pyodide backend (SpecLife): usePyodide.initialize *)
(* and reinitialize, and a run requested through useCodeRunner.runCode at  *)
(* any moment of it.  The awaits of initialize (script, loadPyodide) change*)
(* no state until the last of them settles, so a call in flight settles in *)
(* one step; runPython blocks the thread, so nothing else happens while a  *)
(* program executes, and SpecLife follows a run up to the point where the  *)
(* engine starts the program.                                              *)
(***************************************************************************)
\* calls of initialize() and reinitialize() in one behaviour
MaxInitCalls == 3

\* if (initializingRef.current || pyodideRef.current) return;
InitializeReturnsEarly(initializing, ref) == initializing \/ ref

\* initialize() up to its first await, entered with the two refs as given
InitializeStarts(initializing, ref) ==
    IF InitializeReturnsEarly(initializing, ref)
    THEN /\ initializingRef' = initializing
         /\ UNCHANGED <<pyIsLoading, pyError, initInFlight>>
    ELSE /\ initializingRef' = TRUE
         /\ pyIsLoading' = TRUE
         /\ pyError' = NULL
         /\ initInFlight' = initInFlight + 1

\* a call of initialize(): the effect at mount is the first one
Initialize ==
    /\ phase # "exec" /\ initCalls < MaxInitCalls
    /\ initCalls' = initCalls + 1
    /\ InitializeStarts(initializingRef, pyodideRef)
    /\ UNCHANGED <<runVars, pyVars, cppVars, serVars, cserVars, pyIsReady, seenIsReady,
                   appVars>>

\* the loads of a call in flight settle: the rest of the try, or the catch,
\* and the finally
InitializeSettles(ok) ==
    /\ phase # "exec" /\ initInFlight > 0
    /\ initInFlight' = initInFlight - 1
    /\ IF ok
       THEN /\ pyodideRef' = TRUE
            /\ pyIsReady' = TRUE
            /\ UNCHANGED pyError
       ELSE /\ pyError' = "Failed to load Pyodide script"
            /\ UNCHANGED <<pyodideRef, pyIsReady>>
    /\ pyIsLoading' = FALSE
    /\ initializingRef' = FALSE
    /\ UNCHANGED <<language, phase, source, result, pyVars, cppVars, serVars, cserVars,
                   initCalls, seenIsReady, appVars>>

\* reinitialize(), up to the first await of the initialize() it calls
Reinitialize ==
    /\ phase # "exec" /\ initCalls > 0 /\ initCalls < MaxInitCalls
    /\ initCalls' = initCalls + 1
    /\ pyodideRef' = FALSE
    /\ pyIsReady' = FALSE
    /\ pyFrames' = FramesNull
    /\ InitializeStarts(FALSE, FALSE)
    /\ UNCHANGED <<language, phase, source, result, step_count, call_depth, frames,
                   traceSet, pyStack, pyExc, pyExcType, pyEvents, pyRaised, traceOut,
                   cppVars, serVars, cserVars, seenIsReady, appVars>>

\* React renders: useCodeRunner.runCode is created anew over the isReady state
Render ==
    /\ phase # "exec" /\ seenIsReady # pyIsReady
    /\ seenIsReady' = pyIsReady
    /\ UNCHANGED <<runVars, pyVars, cppVars, serVars, cserVars, initializingRef,
                   pyIsLoading, pyIsReady, pyError, initInFlight, initCalls, appVars>>

\* if (!pyodide.isReady) of useCodeRunner.runCode
RunnerRejects(isReady) == ~isReady

\* useCodeRunner.runCode(code, 'python')
RunnerRunCode(code) ==
    IF RunnerRejects(seenIsReady)
    THEN /\ phase = "idle"
         /\ language' = "python"
         /\ source' = code
         /\ result' = TraceResult(FALSE,
                         "Python engine (Pyodide) is not ready yet. Please wait...", <<>>)
         /\ phase' = "done"
         /\ UNCHANGED <<pyodideRef, pyVars, cppVars, serVars, cserVars, lifeVars, appVars>>
    ELSE PyRunCode(code)

InitLife ==
    /\ language = "none" /\ phase = "idle" /\ source = "none"
    /\ pyodideRef = FALSE
    /\ step_count = 0 /\ call_depth = 0 /\ frames = <<>> /\ traceSet = FALSE
    /\ pyStack = <<>> /\ pyExc = "none" /\ pyExcType = "Exception" /\ pyEvents = 0
    /\ pyRaised = FALSE
    /\ traceOut = NoOut
    /\ result = TraceResult(FALSE, NULL, <<>>)
    /\ pyFrames = FramesNull
    /\ stepCount = 0 /\ capturedFrames = <<>> /\ output = "" /\ lastLine = 0
    /\ nextCalls = 0
    /\ cppIsLoading = FALSE /\ cppError = NULL /\ cppFrames = FramesNull
    /\ SerIdle /\ CSerIdle /\ AppIdle
    /\ initializingRef = FALSE /\ pyIsLoading = TRUE /\ pyIsReady = FALSE
    /\ pyError = NULL /\ initInFlight = 0 /\ initCalls = 0 /\ seenIsReady = FALSE

NextLife ==
    \/ Initialize
    \/ \E ok \in BOOLEAN : InitializeSettles(ok)
    \/ Reinitialize
    \/ Render
    \/ \E code \in {"valid", "invalid", "breaksCall"} : RunnerRunCode(code)

SpecLife == InitLife /\ [][NextLife]_vars

(***************************************************************************)
(* App: the result on display and the cursor of its timeline (SpecApp).    *)
(* A handler and the render that follows it are one step.  The TraceResult *)
(* that runCode resolves to is any result of either engine, kept by its    *)
(* success flag and its number of frames.                                  *)
(***************************************************************************)
\* frames of a TraceResult on display
MaxFrames == 5

\* useState<TraceResult | null>(null)
ResultNull == [set |-> FALSE, success |-> FALSE, n |-> 0]

ResultOf(success, n) == [set |-> TRUE, success |-> success, n |-> n]

\* {result && result.frames.length > 0 && ...}: the buttons and the slider
ControlsShown == appResult.set /\ appResult.n > 0

\* mutant: the cursor is left where it was
CursorAfterRun_Kept(s) == s

\* setCurrentStep(0) of handleRunCode
CursorAfterRun(s) == 0

\* (s) => Math.max(0, s - 1)
PrevStep(s) == Max(0, s - 1)

\* (s) => Math.min(result.frames.length - 1, s + 1)
NextStep(s, n) == Min(n - 1, s + 1)

HandleLanguageChange(newLanguage) ==
    /\ appLanguage' = newLanguage
    /\ appResult' = ResultNull
    /\ currentStep' = 0
    /\ UNCHANGED <<runVars, pyVars, cppVars, serVars, cserVars, lifeVars, runPending,
                   cursorBeforeRun, tlVars>>

\* handleRunCode up to its await; the button is disabled while an engine is
\* loading or running
HandleRunCode ==
    /\ ~runPending
    /\ runPending' = TRUE
    /\ UNCHANGED <<runVars, pyVars, cppVars, serVars, cserVars, lifeVars, appLanguage,
                   appResult, currentStep, cursorBeforeRun, tlVars>>

\* runCode resolved: the rest of handleRunCode
RunCodeResolves(success, n) ==
    /\ runPending
    /\ runPending' = FALSE
    /\ appResult' = ResultOf(success, n)
    /\ currentStep' = CursorAfterRun(currentStep)
    /\ cursorBeforeRun' = currentStep
    /\ UNCHANGED <<runVars, pyVars, cppVars, serVars, cserVars, lifeVars, appLanguage,
                   tlVars>>

\* a control of the timeline sets the cursor
SetCurrentStep(s) ==
    /\ currentStep' = s
    /\ UNCHANGED <<runVars, pyVars, cppVars, serVars, cserVars, lifeVars, appLanguage,
                   appResult, runPending, cursorBeforeRun, tlVars>>

ClickStart == ControlsShown /\ currentStep # 0 /\ SetCurrentStep(0)

ClickPrev == ControlsShown /\ currentStep # 0 /\ SetCurrentStep(PrevStep(currentStep))

ClickNext ==
    /\ ControlsShown /\ currentStep # appResult.n - 1
    /\ SetCurrentStep(NextStep(currentStep, appResult.n))

ClickEnd == ControlsShown /\ currentStep # appResult.n - 1 /\ SetCurrentStep(appResult.n - 1)

\* the range input gives a value between its min (0) and its max
\* (result.frames.length - 1)
SliderChange(v) ==
    /\ ControlsShown /\ v \in 0..(appResult.n - 1) /\ v # currentStep
    /\ SetCurrentStep(v)

InitApp ==
    /\ language = "none" /\ phase = "idle" /\ source = "none"
    /\ pyodideRef = TRUE
    /\ step_count = 0 /\ call_depth = 0 /\ frames = <<>> /\ traceSet = FALSE
    /\ pyStack = <<>> /\ pyExc = "none" /\ pyExcType = "Exception" /\ pyEvents = 0
    /\ pyRaised = FALSE
    /\ traceOut = NoOut
    /\ result = TraceResult(FALSE, NULL, <<>>)
    /\ pyFrames = FramesNull
    /\ stepCount = 0 /\ capturedFrames = <<>> /\ output = "" /\ lastLine = 0
    /\ nextCalls = 0
    /\ cppIsLoading = FALSE /\ cppError = NULL /\ cppFrames = FramesNull
    /\ SerIdle /\ CSerIdle /\ LifeSettled(TRUE) /\ AppIdle

NextApp ==
    \/ \E newLanguage \in {"python", "c"} : HandleLanguageChange(newLanguage)
    \/ HandleRunCode
    \/ \E success \in BOOLEAN, n \in 0..MaxFrames : RunCodeResolves(success, n)
    \/ ClickStart
    \/ ClickPrev
    \/ ClickNext
    \/ ClickEnd
    \/ \E v \in 0..MaxFrames : SliderChange(v)

SpecApp == InitApp /\ [][NextApp]_vars

(***************************************************************************)
(* The timeline store (SpecTimeline): setFrames and the operations that    *)
(* move the cursor.                                                        *)
(***************************************************************************)
\* the arguments goToStep is called with
StepArgs == (0 - 2)..(MaxFrames + 5)

\* mutant: only the lower end is clamped
ClampStep_LowerOnly(k, n) == Max(k, 0)

\* the step k clamped into the range of n frames (0 when there are none)
ClampStep(k, n) == IF n = 0 THEN 0 ELSE Min(Max(k, 0), n - 1)

TlUnchanged ==
    UNCHANGED <<runVars, pyVars, cppVars, serVars, cserVars, lifeVars, appLanguage,
                appResult, currentStep, runPending, cursorBeforeRun>>

\* setFrames(frames): replaces the frames, resets the cursor, stops playback
setFrames(n) ==
    /\ tlFrames' = n
    /\ tlCurrentStep' = 0
    /\ tlIsPlaying' = FALSE
    /\ tlLastOp' = [op |-> "setFrames", arg |-> n]
    /\ TlUnchanged

\* the operations that move the cursor by hand pause first
goToStep(k) ==
    /\ tlCurrentStep' = ClampStep(k, tlFrames)
    /\ tlIsPlaying' = FALSE
    /\ tlLastOp' = [op |-> "goToStep", arg |-> k]
    /\ UNCHANGED tlFrames
    /\ TlUnchanged

nextStep ==
    /\ tlCurrentStep' = ClampStep(tlCurrentStep + 1, tlFrames)
    /\ tlIsPlaying' = FALSE
    /\ tlLastOp' = [op |-> "nextStep", arg |-> 0]
    /\ UNCHANGED tlFrames
    /\ TlUnchanged

prevStep ==
    /\ tlCurrentStep' = ClampStep(tlCurrentStep - 1, tlFrames)
    /\ tlIsPlaying' = FALSE
    /\ tlLastOp' = [op |-> "prevStep", arg |-> 0]
    /\ UNCHANGED tlFrames
    /\ TlUnchanged

\* play(): isPlaying = true; the scheduler then ticks
play ==
    /\ tlIsPlaying' = TRUE
    /\ tlLastOp' = [op |-> "play", arg |-> 0]
    /\ UNCHANGED <<tlFrames, tlCurrentStep>>
    /\ TlUnchanged

\* pause(): isPlaying = false, the pending advance is cancelled
pause ==
    /\ tlIsPlaying' = FALSE
    /\ tlLastOp' = [op |-> "pause", arg |-> 0]
    /\ UNCHANGED <<tlFrames, tlCurrentStep>>
    /\ TlUnchanged

\* mutant: playback goes on at the last frame
PlayingAfterTick_NoAutoStop(step, n) == TRUE

\* playback stops when the cursor has reached the last frame
PlayingAfterTick(step, n) == step < n - 1

\* a tick of the scheduler: the cursor advances by 1, up to the last frame
Tick ==
    /\ tlIsPlaying
    /\ IF tlCurrentStep + 1 <= tlFrames - 1
       THEN /\ tlCurrentStep' = tlCurrentStep + 1
            /\ tlIsPlaying' = PlayingAfterTick(tlCurrentStep', tlFrames)
       ELSE /\ tlCurrentStep' = tlCurrentStep
            /\ tlIsPlaying' = FALSE
    /\ tlLastOp' = [op |-> "tick", arg |-> 0]
    /\ UNCHANGED tlFrames
    /\ TlUnchanged

NextTimeline ==
    \/ \E n \in 0..MaxFrames : setFrames(n)
    \/ \E k \in StepArgs : goToStep(k)
    \/ nextStep
    \/ prevStep
    \/ play
    \/ pause
    \/ Tick

SpecTimeline == InitApp /\ [][NextTimeline]_vars

(***************************************************************************)
(* Properties                                                              *)
(***************************************************************************)
IsPy == language = "python"
IsC  == language = "c"

\* C1: in every trace of the Python tracer, cut off by the ceiling or ended
\* by a fault or not, the frame at index i (0-based) has step i+1: the k-th
\* frame of the list is numbered k.
C1_StepIsIndex ==
    /\ \A k \in 1..Len(frames) : frames[k].step = k
    /\ traceOut.kind = "json" =>
          \A k \in 1..Len(traceOut.frames) : traceOut.frames[k].step = k

\* a trace that a fault ended after the ceiling had cut it off
C1_Witness ==
    /\ phase = "done" /\ traceOut.kind = "json" /\ ~traceOut.success
    /\ Len(traceOut.frames) = MAX_STEPS /\ pyEvents > MAX_STEPS

\* C2: in every TraceResult of useCpp.runCode the first frame has step 1 and
\* the frame at index i has step i+1, the output frame included, also when
\* some debugger step recorded no frame.
C2_CppStepIsIndex ==
    (phase = "done" /\ IsC) =>
        \A k \in 1..Len(result.frames) : result.frames[k].step = k

\* C3: a recorded return event appends a frame with the depth in force
\* before the event and leaves the depth counter at max(0, depth - 1); the
\* counter is never negative.
C3_ReturnDepth ==
    /\ [][(Len(frames') = Len(frames) + 1 /\ Last(frames').event = "return")
            => (/\ Last(frames').depth = call_depth
                /\ call_depth' = IF call_depth - 1 > 0 THEN call_depth - 1 ELSE 0)]_vars
    /\ [](call_depth >= 0)

\* the return of a nested block has just been recorded
C3_Witness ==
    /\ frames # <<>> /\ Last(frames).event = "return"
    /\ Last(frames).depth = 2 /\ call_depth = 1

\* C4: a program that produces more events in user code than the ceiling,
\* raises nothing and finishes gives success = true, error = null, exactly
\* MAX_STEPS frames and no exception frame.
C4_CeilingIsSuccess ==
    (phase = "done" /\ IsPy /\ traceOut.kind = "json"
       /\ pyEvents > MAX_STEPS /\ ~pyRaised)
    => /\ traceOut.success /\ traceOut.error = NULL
       /\ Len(traceOut.frames) = MAX_STEPS
       /\ \A k \in 1..Len(traceOut.frames) : traceOut.frames[k].event # "exception"

C4_Witness ==
    /\ phase = "done" /\ IsPy /\ traceOut.kind = "json" /\ traceOut.success
    /\ pyEvents > MAX_STEPS /\ ~pyRaised /\ Len(traceOut.frames) = MAX_STEPS

\* C5: reaching the ceiling stops the execution of the program: once the
\* step counter is at the ceiling the program runs no further and the next
\* thing to happen is trace_code returning to its caller.
C5_CeilingStopsProgram ==
    [][(Executing /\ step_count >= MAX_STEPS) => phase' = "done"]_vars

\* C6: source that does not parse or compile gives success = false, no
\* frames and a non-empty error, in either engine; nothing is recorded and no
\* event is processed.
C6_InvalidSource ==
    (phase = "done" /\ source = "invalid")
    => /\ ~result.success /\ result.frames = <<>>
       /\ result.error \notin {NULL, ""}
       /\ frames = <<>> /\ capturedFrames = <<>>
       /\ step_count = 0 /\ pyEvents = 0 /\ nextCalls = 0 /\ stepCount = 0

\* the Python engine, ready, was given invalid source
C6_Witness ==
    phase = "done" /\ source = "invalid" /\ IsPy /\ pyodideRef
      /\ traceOut.kind = "json"

\* a fault raised during execution has left the program
FaultEscaped ==
    \/ IsPy /\ pyStack = <<>> /\ pyExc = "arrived"
    \/ IsC /\ nextCalls > 0 /\ cppError # NULL

\* the frames the engine had recorded when the run ended
Recorded == IF IsPy THEN frames ELSE capturedFrames

\* C7: when a fault raised during execution escapes the program, the
\* TraceResult has success = false, an error, and exactly the frames
\* recorded before the fault surfaced.
C7_FaultKeepsFrames ==
    (phase = "done" /\ FaultEscaped)
    => /\ ~result.success /\ result.error # NULL
       /\ result.frames = Recorded

\* C8: no frame follows a fault frame, and a run that ends with
\* success = false and some frames ends with a fault frame.
C8_FaultFrameIsTerminal ==
    /\ \A k \in 1..(Len(frames) - 1) : frames[k].event # "exception"
    /\ (phase = "done" /\ ~result.success /\ result.frames # <<>>)
         => Last(result.frames).event = "exception"

FieldsMatchEvent(f) ==
    /\ ("return_value" \in DOMAIN f) <=> (f.event = "return")
    /\ ("exception" \in DOMAIN f) <=> (f.event = "exception")

\* C9: in every frame of either engine the return-value field is present
\* exactly when the event is return, and the exception field exactly when
\* the event is exception.
C9_FieldsMatchEvent ==
    /\ \A k \in 1..Len(frames) : FieldsMatchEvent(frames[k])
    /\ \A k \in 1..Len(capturedFrames) : FieldsMatchEvent(capturedFrames[k])
    /\ \A k \in 1..Len(result.frames) : FieldsMatchEvent(result.frames[k])

\* a trace with an exception frame and the frame of a return of None
C9_Witness ==
    /\ phase = "done" /\ IsPy
    /\ \E k \in 1..Len(result.frames) : result.frames[k].event = "exception"
    /\ \E k \in 1..Len(result.frames) :
          /\ result.frames[k].event = "return"
          /\ result.frames[k].return_value = JsonNull

IsMutableContainer(o) == o.type \in {"list", "dict", "set"}

\* C10: within one frame, two bindings that refer to the same container get
\* equal identity, and two bindings that refer to different containers with
\* equal contents get different identity.
C10_IdentityIsAliasing ==
    (serDone /\ ~IsRaised(captured)) =>
        \A n1 \in DOMAIN captured, n2 \in DOMAIN captured :
            (IsMutableContainer(heap[f_locals[n1]]) /\ IsMutableContainer(heap[f_locals[n2]]))
            => /\ f_locals[n1] = f_locals[n2] => captured[n1].id = captured[n2].id
               /\ (/\ f_locals[n1] # f_locals[n2]
                   /\ heap[f_locals[n1]].type = heap[f_locals[n2]].type
                   /\ heap[f_locals[n1]] = heap[f_locals[n2]])
                     => captured[n1].id # captured[n2].id

\* two names bound to different lists with equal contents, captured
C10_Witness ==
    /\ serDone /\ ~IsRaised(captured)
    /\ f_locals["a"] # f_locals["b"]
    /\ heap[f_locals["a"]] = heap[f_locals["b"]]
    /\ heap[f_locals["a"]].type = "list" /\ heap[f_locals["a"]].items # <<>>
    /\ captured["a"].value = captured["b"].value

(***************************************************************************)
(* The caps of the serializer and the filter of capture_locals (SpecCap)   *)
(***************************************************************************)
\* the snapshot of a binding carries truncated = true
MarkedTruncated(snap) == "truncated" \in DOMAIN snap /\ snap.truncated = TRUE

\* the bindings capture_locals recorded, when it returned
CapturedNames == IF serDone /\ ~IsRaised(captured) THEN DOMAIN captured ELSE {}

\* C12: a list or tuple is serialized with length = its number of elements
\* and with its first MAX_LIST_LENGTH elements in order; it is marked
\* truncated when it has more elements than the cap, and not marked otherwise.
C12_SequenceCap ==
    \A name \in CapturedNames :
        LET o == heap[f_locals[name]]
            snap == captured[name]
        IN  o.type \in {"list", "tuple"} =>
              /\ snap.length = Len(o.items)
              /\ Len(snap.value) = Min(Len(o.items), MAX_LIST_LENGTH)
              /\ \A i \in 1..Len(snap.value) : snap.value[i].id = o.items[i]
              /\ MarkedTruncated(snap) <=> (Len(o.items) > MAX_LIST_LENGTH)

\* C13: a dict of n entries is serialized with min(n, DICT_LIMIT) entries and
\* a set of n elements with min(n, MAX_LIST_LENGTH) elements; length is n; it
\* is marked truncated exactly when something was left out.
C13_MappingAndSetCap ==
    \A name \in CapturedNames :
        LET o == heap[f_locals[name]]
            snap == captured[name]
            n == Len(o.items)
        IN  /\ o.type = "dict" =>
                 /\ Cardinality(DOMAIN snap.value) = Min(n, DICT_LIMIT)
                 /\ snap.length = n
                 /\ MarkedTruncated(snap) <=> (n > DICT_LIMIT)
            /\ o.type = "set" =>
                 /\ Len(snap.value) = Min(n, MAX_LIST_LENGTH)
                 /\ snap.length = n
                 /\ MarkedTruncated(snap) <=> (n > MAX_LIST_LENGTH)

\* C14: text longer than MAX_STRING_LENGTH is serialized as its first
\* MAX_STRING_LENGTH characters followed by the marker, and the snapshot has
\* a length field that holds the length of the original text.
C14_TextCap ==
    \A name \in CapturedNames :
        LET o == heap[f_locals[name]]
            snap == captured[name]
        IN  (o.type = "str" /\ Len(o.text) > MAX_STRING_LENGTH) =>
              /\ snap.value = SubSeq(o.text, 1, MAX_STRING_LENGTH) \o Ellipsis
              /\ "length" \in DOMAIN snap
              /\ snap.length = Len(o.text)

\* C15: capture_locals always returns the bindings of the frame: a value
\* that fails to serialize yields a snapshot of its own and every binding
\* the filter keeps is recorded; no error leaves capture_locals.
C15_SerializationFailureContained ==
    serDone =>
        /\ ~IsRaised(captured)
        /\ \A name \in DOMAIN f_locals :
              ~Skipped(heap, name, f_locals[name]) => name \in DOMAIN captured

\* C18: capture_locals drops every binding whose name starts with two
\* underscores, and keeps a binding whose name starts with exactly one
\* underscore unless the name is on the denylist or the value is a callable
\* that is no container.
C18_UnderscoreFilter ==
    (serDone /\ ~IsRaised(captured)) =>
        \A name \in DOMAIN f_locals :
            /\ LeadingUnderscores(name) = 2 => name \notin DOMAIN captured
            /\ (/\ LeadingUnderscores(name) = 1
                /\ name \notin IGNORED_VARS
                /\ ~Callable(heap[f_locals[name]]))
                  => name \in DOMAIN captured

(***************************************************************************)
(* The identities of the C engine (SpecCVars)                              *)
(***************************************************************************)
\* the snapshots of one variables map: <<name, 0>> is the snapshot of the
\* binding, <<name, i>> that of the i-th element of an array
SnapshotsOf(variables) ==
    {<<name, 0>> : name \in DOMAIN variables}
    \cup
    UNION {{<<name, i>> : i \in 1..(IF variables[name].type = "array"
                                    THEN Len(variables[name].value) ELSE 0)} :
             name \in DOMAIN variables}

IdOf(variables, pos) ==
    IF pos[2] = 0 THEN variables[pos[1]].id ELSE variables[pos[1]].value[pos[2]].id

\* C11: within one frame of the C engine no two snapshots share an identity,
\* the snapshots of the bindings and those of the elements of arrays alike.
C11_CppIdentitiesDistinct ==
    cppVarsDone =>
        \A p \in SnapshotsOf(cppVariables), q \in SnapshotsOf(cppVariables) :
            p # q => IdOf(cppVariables, p) # IdOf(cppVariables, q)

(***************************************************************************)
(* The life cycle of the Pyodide backend (SpecLife)                        *)
(***************************************************************************)
\* this step is a request to run Python source
RunRequested == phase = "idle" /\ phase' # "idle" /\ language' = "python"

\* the backend has not finished initializing: a load is in flight (the
\* first one, or that of a reinitialize), or no instance is held (no load
\* has succeeded)
NotInitialized == initInFlight > 0 \/ ~pyodideRef

\* C16: a Python run requested while the backend has not finished
\* initializing is answered at once with success = false, a non-empty error
\* and no frames, and does not reach the engine: trace_code is not entered
\* and nothing is left to execute.
C16_NotReadyIsRejected ==
    [][(RunRequested /\ NotInitialized)
         => /\ phase' = "done"
            /\ ~result'.success /\ result'.error \notin {NULL, ""}
            /\ result'.frames = <<>>
            /\ traceOut' = NoOut /\ ~traceSet' /\ frames' = <<>>]_vars

\* C17: at most one initialization is in flight at any time, and once an
\* instance is held no initialization starts unless reinitialize is called
\* (which drops the instance).
C17_InitializationIsIdempotent ==
    [][/\ initInFlight' <= 1
       /\ (pyodideRef /\ initInFlight' > initInFlight) => ~pyodideRef']_vars

(***************************************************************************)
(* The cursor of the timeline (SpecApp, SpecTimeline)                      *)
(***************************************************************************)
\* C19: whenever the result on display has frames the cursor is one of
\* their indices, 0 <= currentStep < |frames|, and it is 0 when there is no
\* result or the result has no frames.
C19_CursorInRange ==
    IF appResult.set /\ appResult.n > 0
    THEN 0 <= currentStep /\ currentStep < appResult.n
    ELSE currentStep = 0

\* the cursor is on the last of several frames while the next run, whose
\* result will replace these frames, is awaited
C19_Witness ==
    /\ appResult.set /\ appResult.n > 1 /\ currentStep = appResult.n - 1
    /\ runPending

\* C20: with n > 0 frames loaded, goToStep(k) leaves the cursor at
\* min(max(k, 0), n - 1), for every integer k; goToStep(n + 5) leaves it at
\* n - 1.
C20_GoToStepClamps ==
    (tlLastOp.op = "goToStep" /\ tlFrames > 0) =>
        /\ tlLastOp.arg < 0 => tlCurrentStep = 0
        /\ tlLastOp.arg \in 0..(tlFrames - 1) => tlCurrentStep = tlLastOp.arg
        /\ tlLastOp.arg > tlFrames - 1 => tlCurrentStep = tlFrames - 1

\* goToStep(n + 5) was called with n frames loaded
C20_Witness ==
    /\ tlLastOp = [op |-> "goToStep", arg |-> tlFrames + 5]
    /\ tlFrames > 1 /\ tlCurrentStep = tlFrames - 1

\* C21: a tick of the playback happens only while playing and advances the
\* cursor by exactly 1 while a later frame exists; when a tick brings the
\* cursor to the last frame isPlaying becomes false, and once isPlaying is
\* false no tick changes the cursor.
C21_PlaybackAutoStops ==
    [][/\ tlLastOp'.op = "tick" =>
            /\ tlIsPlaying
            /\ tlCurrentStep + 1 <= tlFrames - 1 => tlCurrentStep' = tlCurrentStep + 1
            /\ tlCurrentStep' >= tlFrames - 1 => ~tlIsPlaying'
       /\ (~tlIsPlaying /\ tlLastOp'.op = "tick") => tlCurrentStep' = tlCurrentStep]_vars

\* a tick has brought the cursor to the last of several frames and stopped
\* the playback
C21_Witness ==
    /\ tlLastOp.op = "tick" /\ tlFrames > 2
    /\ tlCurrentStep = tlFrames - 1 /\ ~tlIsPlaying

\* C22: the step in which the TraceResult of a completed run becomes the
\* result on display leaves the cursor at 0, wherever it was before.
C22_NewResultResetsCursor ==
    [][(runPending /\ ~runPending') => (appResult'.set /\ currentStep' = 0)]_vars

\* a result arrived while the cursor was on a later frame of the one before
C22_Witness ==
    appResult.set /\ ~runPending /\ cursorBeforeRun > 0 /\ currentStep = 0

\* the frames state of the hook whose runCode was called
HookFrames == IF IsPy THEN pyFrames ELSE cppFrames

\* C23: when a runCode call of an engine hook has returned, the frames state
\* of that hook, if it holds frames at all, holds the frames of the
\* TraceResult just returned and not those of an earlier run.
C23_RunSupersedesPrior ==
    phase = "done" => (HookFrames.set => HookFrames.frames = result.frames)

\* C24: a run that is over has handed a TraceResult (success, error, frames)
\* to the caller, whatever the source, the language and the engine state and
\* wherever the fault arose; nothing was thrown.
C24_NoFaultEscapes ==
    phase = "done" =>
        /\ DOMAIN result = {"success", "error", "frames"}
        /\ result.success \in BOOLEAN

\* a Python run whose trace was produced and could not be decoded, answered
\* by a failed TraceResult
C24_Witness ==
    /\ phase = "done" /\ IsPy /\ traceOut.kind = "json" /\ traceOut.success
    /\ DOMAIN result = {"success", "error", "frames"} /\ ~result.success

\* C25: after a run that stored its frames in its engine's hook, the frames
\* useCodeRunner returns are the frames of that engine, the one that ran last.
C25_FramesOfLastEngine ==
    (phase = "done" /\ HookFrames = FramesOf(result.frames)) => RunnerFrames = HookFrames

\* C26: an event the Python tracer records appends exactly one frame and
\* increments the step counter by 1 before it, so that the frame carries the
\* new count; a call event has incremented the depth counter by 1 before the
\* append (the frame's depth is the old depth + 1), a line event leaves the
\* depth counter alone and its frame carries the current depth.
C26_CallAndLineEffect ==
    [][(Executing /\ frames' # frames) =>
          LET f == Last(frames') IN
          /\ frames' = Append(frames, f)
          /\ step_count' = step_count + 1 /\ f.step = step_count'
          /\ f.event = "call" => (call_depth' = call_depth + 1 /\ f.depth = call_depth + 1)
          /\ f.event = "line" => (call_depth' = call_depth /\ f.depth = call_depth)]_vars

\* a nested call was recorded at depth 2 and a line of the callee after it
C26_Witness ==
    /\ Executing /\ call_depth = 2 /\ Len(frames) >= 2
    /\ frames[Len(frames) - 1].event = "call" /\ frames[Len(frames) - 1].depth = 2
    /\ Last(frames).event = "line" /\ Last(frames).depth = 2

\* C27: once trace_code is over, by its success return, by its except branch
\* or by an exception that escapes it, no trace function is installed.
C27_TracerRemoved ==
    (phase = "done" /\ IsPy) => ~traceSet

\* trace_code was left by an exception its handler does not catch, with
\* frames recorded, and the trace function is gone
C27_Witness ==
    /\ phase = "done" /\ IsPy /\ traceOut.kind = "raised" /\ pyExcType = "SystemExit"
    /\ frames # <<>> /\ Last(frames).event = "return" /\ ~traceSet

\* C28: no TraceResult of the C engine holds more than MAX_STEPS frames, the
\* output frame included.
C28_CeilingCapsFrames ==
    (phase = "done" /\ language = "c") => Len(result.frames) <= CPP_MAX_STEPS

\* C29: the stepping loop of the C engine calls next() at most MAX_STEPS + 1
\* times; a run cut off by the ceiling returns success = true and error =
\* null; after runCode has returned, on any path, isLoading is false.
C29_LoopIsBounded ==
    /\ nextCalls <= CPP_MAX_STEPS + 1
    /\ (phase = "done" /\ language = "c") =>
          /\ ~cppIsLoading
          /\ stepCount > CPP_MAX_STEPS => (result.success /\ result.error = NULL)

\* a program that never finished was cut off by the ceiling
C29_Witness ==
    /\ phase = "done" /\ language = "c" /\ nextCalls = CPP_MAX_STEPS + 1
    /\ stepCount = CPP_MAX_STEPS + 1 /\ result.success /\ ~cppIsLoading

\* the number of levels a snapshot nests below itself
RECURSIVE Nesting(_)
Nesting(snap) ==
    IF snap.type \in {"list", "tuple", "set", "dict"}
    THEN LET inner == {Nesting(snap.value[i]) : i \in DOMAIN snap.value}
         IN  IF inner = {} THEN 0 ELSE 1 + (CHOOSE m \in inner : \A k \in inner : k <= m)
    ELSE 0

\* the snapshots found at a level below a snapshot
RECURSIVE AtLevel(_, _)
AtLevel(snap, level) ==
    IF level = 0 THEN {snap}
    ELSE IF snap.type \in {"list", "tuple", "set", "dict"}
    THEN UNION {AtLevel(snap.value[i], level - 1) : i \in DOMAIN snap.value}
    ELSE {}

\* C30: serialize_value gives a snapshot for every value, self-referential
\* containers included; down to level 3 a value is serialized by its kind,
\* at level 4 it is replaced by the placeholder, and no snapshot nests more
\* than 4 levels below the root.
C30_DepthIsBounded ==
    (serDone /\ ~IsRaised(captured)) =>
        \A name \in DOMAIN captured :
            /\ Nesting(captured[name]) <= MAX_DEPTH + 1
            /\ \A level \in 0..MAX_DEPTH : \A snap \in AtLevel(captured[name], level) :
                  snap.type # "truncated"
            /\ \A snap \in AtLevel(captured[name], MAX_DEPTH + 1) :
                  snap.type = "truncated" /\ snap.value = Ellipsis

\* a list that contains itself was serialized, down to the placeholder
C30_Witness ==
    /\ serDone /\ ~IsRaised(captured)
    /\ \E name \in DOMAIN captured :
          /\ heap[f_locals[name]].type = "list"
          /\ heap[f_locals[name]].items = <<f_locals[name]>>
          /\ Nesting(captured[name]) = MAX_DEPTH + 1
          /\ AtLevel(captured[name], MAX_DEPTH + 1) # {}

\* the JavaScript value a binding of the C engine holds (value.v of a runtime
\* value)
Unwrapped(raw) == IF TypeOf(raw) = "object" /\ "v" \in raw.has THEN raw.v ELSE raw

\* C31: in both engines a boolean is serialized with kind bool and with the
\* boolean itself as its value, and an integer that is no boolean with kind
\* int.
C31_BoolIsNotInt ==
    /\ (serDone /\ ~IsRaised(captured)) =>
          \A name \in DOMAIN captured :
              LET o == heap[f_locals[name]]
                  snap == captured[name]
              IN  /\ o.type = "bool" => (snap.type = "bool" /\ snap.value = o.v)
                  /\ o.type = "int" => snap.type = "int"
    /\ cppVarsDone =>
          \A name \in DOMAIN cppVariables :
              LET v == Unwrapped(allVars[name])
                  snap == cppVariables[name]
              IN  /\ TypeOf(v) = "boolean" => (snap.type = "bool" /\ snap.value = v)
                  /\ (TypeOf(v) = "number" /\ v.int) => snap.type = "int"

\* the run met an engine, compile or runtime fault or was rejected
Faulted ==
    \/ IsPy /\ ~pyodideRef
    \/ source \in {"invalid", "breaksCall"}
    \/ IsPy /\ pyExc = "arrived"
    \/ language = "c" /\ cppError # NULL
    \/ language = "c" /\ nextCalls = 0 /\ phase = "done"

\* C32: in the TraceResult of a finished run, and in the one trace_code wrote,
\* success is true exactly when error is null; a failure carries a non-empty
\* error string, and a run that met a fault or was rejected is a failure.
C32_SuccessIffNoError ==
    phase = "done" =>
        /\ result.success <=> result.error = NULL
        /\ ~result.success => result.error \notin {NULL, ""}
        /\ Faulted => ~result.success
        /\ traceOut.kind = "json" => (traceOut.success <=> traceOut.error = NULL)

\* a Python program was left by an exception that trace_code caught: the
\* result is a failure with the error text and the frames recorded
C32_Witness ==
    /\ phase = "done" /\ IsPy /\ pyExc = "arrived" /\ traceOut.kind = "json"
    /\ ~result.success /\ result.error = "Exception: msg" /\ result.frames # <<>>

\* calls minus returns among the frames i+1 .. k
Balance(frs, i, k) ==
    Cardinality({m \in (i + 1)..k : frs[m].event = "call"})
      - Cardinality({m \in (i + 1)..k : frs[m].event = "return"})

\* frame j is the return that matches the call frame i
Matches(frs, i, j) ==
    /\ i < j /\ frs[i].event = "call" /\ frs[j].event = "return"
    /\ \A k \in (i + 1)..(j - 1) : Balance(frs, i, k) >= 0
    /\ Balance(frs, i, j - 1) = 0

\* C33: in the trace of the Python tracer a return frame has the depth of the
\* call frame it matches, and no frame between the two is shallower, also
\* when an exception propagates out of the function.
C33_ReturnMatchesCall ==
    \A i \in 1..Len(frames), j \in 1..Len(frames) :
        Matches(frames, i, j) =>
            /\ frames[j].depth = frames[i].depth
            /\ \A k \in (i + 1)..(j - 1) : frames[k].depth >= frames[i].depth

\* a nested call was left by a propagating exception: its call frame, the
\* exception frame and its return frame, all at depth 2
C33_Witness ==
    \E i \in 1..(Len(frames) - 2) :
        /\ frames[i].event = "call" /\ frames[i].depth = 2
        /\ frames[i + 1].event = "exception" /\ frames[i + 1].depth = 2
        /\ frames[i + 2].event = "return" /\ Matches(frames, i, i + 2)

\* C34: whenever isReady is true an instance is stored; no run that passed the
\* readiness check of useCodeRunner is answered by usePyodide with "not
\* initialized"; whenever an initialization is in flight isLoading is true.
C34_ReadinessConsistent ==
    /\ pyIsReady => pyodideRef
    /\ ~(phase = "done" /\ IsPy /\ result.error = "Pyodide is not initialized")
    /\ initInFlight > 0 => pyIsLoading

====
